---- MODULE Spec2Model ----
(***************************************************************************)
(* score.auth: the RuleSet (rule registry and first-match dispatch) and    *)
(* the authenticator chain (retrieve / store through linked               *)
(* authenticators), with the context constructor and destructor that the  *)
(* module registers.                                                       *)
(*                                                                         *)
(* Three specifications share the module:                                  *)
(*   Spec      the RuleSet: rule registration and permits calls;           *)
(*   AuthSpec  init, the authenticator chain, contexts, session and db;    *)
(*   AppSpec   both, for the claims that speak of both.                    *)
(***************************************************************************)
EXTENDS Integers, Sequences, FiniteSets, TLC

VARIABLES
    rules,          \* RuleSet.rules: operation -> ordered mapping (a sequence of
                    \* [args, test] entries with distinct args)
    last,           \* what the most recent permits call did and delivered,
                    \* and the rule table it started from
    latest,         \* history: (operation, signature) -> the predicate that the
                    \* most recent registration under that key passed
    reregistered,   \* history: some registration used a key registered before
    firsts,         \* history: operation -> its signatures, in the order in
                    \* which each was registered for the first time
    refronted,      \* history: some registration put another predicate under
                    \* a key that had a later registered key behind it
    startup,        \* init: the confdict it was given, how it ended, the
                    \* context members it registered and the chain it built
    authenticator,  \* ConfiguredAuthModule.authenticator: the chain, head first,
                    \* the NullAuthenticator last
    module,         \* which of the two shipped init modules configured the app
    db,             \* the persistence collaborator: the records that exist
    session,        \* ctx.session: session key -> stored value
    ctx,            \* the current context: request, actor member, old value
    obs,            \* what the most recent chain operation did and delivered
    login           \* history: the actor of the most recent credential login,
                    \* and whether the context it happened in is torn down

vars == <<rules, last, latest, reregistered, firsts, refronted, startup,
         authenticator, module, db, session, ctx, obs, login>>
ruleVars == <<rules, last, latest, reregistered, firsts, refronted>>
authVars == <<startup, authenticator, module, db, session, ctx, obs, login>>

(***************************************************************************)
(* Bounds                                                                  *)
(***************************************************************************)
MaxRules == 2       \* rule entries held by the RuleSet, over all operations
MaxChain == 2       \* configured authenticators in front of the null link

(***************************************************************************)
(* The RuleSet's inputs: classes, objects, predicates, contexts            *)
(***************************************************************************)
Classes == {"Base", "Derived", "Other"}

\* The classes an instance of cls is an instance of (its MRO).
Mro(cls) == IF cls = "Derived" THEN {"Derived", "Base"} ELSE {cls}

\* Subject objects: a class and an owner (an actor id).
objB == [cls |-> "Base", owner |-> 1]
objD == [cls |-> "Derived", owner |-> 2]
objO == [cls |-> "Other", owner |-> 1]

ArgLists == {<<>>, <<objB>>, <<objD>>, <<objO>>, <<objD, objO>>}

Signatures == {<<>>, <<"Base">>, <<"Derived">>, <<"Other">>, <<"Base", "Other">>}

Operations == {"edit", "sing"}

\* Predicate functions, identified by their __name__.
Funcs == {"sing", "owns"}

OpNames == Operations \cup Funcs

\* ctx.actor as the predicates see it: 0 is None.
RuleActors == {0, 1}

isinstance(obj, cls) == cls \in Mro(obj.cls)

\* rule_test(ctx, *args) for the two predicates.
Call(func, actor, args) ==
    IF func = "sing"
    THEN actor = 1
    ELSE \A i \in 1..Len(args) : args[i].owner = actor

(***************************************************************************)
(* RuleSet (_ruleset.py)                                                   *)
(***************************************************************************)
\* Number of rule entries the RuleSet holds.
RECURSIVE CountRules(_, _)
CountRules(rs, ops) ==
    IF ops = {} THEN 0
    ELSE LET o == CHOOSE x \in ops : TRUE
         IN  Len(rs[o]) + CountRules(rs, ops \ {o})

HasKey(od, key) == \E k \in 1..Len(od) : od[k].args = key

\* OrderedDict.__setitem__: an existing key keeps its place and gets the new
\* value, a new key is appended.
OrderedDictSetDefault(od, key, val) ==
    IF HasKey(od, key)
    THEN od
    ELSE Append(od, [args |-> key, test |-> val])

OrderedDictSetMoveToEnd(od, key, val) ==
    Append(SelectSeq(od, LAMBDA e : e.args # key), [args |-> key, test |-> val])

OrderedDictSet(od, key, val) ==
    IF HasKey(od, key)
    THEN [k \in 1..Len(od) |->
             IF od[k].args = key THEN [args |-> key, test |-> val] ELSE od[k]]
    ELSE Append(od, [args |-> key, test |-> val])

\* The table of an operation, created empty on first use.
TableOf(rs, operation) ==
    IF operation \in DOMAIN rs THEN rs[operation] ELSE <<>>

\* rule(operation, *args)(func): the capturer.
capturer(rs, operation, args, func) ==
    [o \in DOMAIN rs \cup {operation} |->
        IF o = operation
        THEN OrderedDictSet(TableOf(rs, operation), args, func)
        ELSE rs[o]]

\* rule(func), the bare decorator: the function's name is the operation and
\* the empty tuple the signature.
rule_bare(rs, func) ==
    [o \in DOMAIN rs \cup {func} |->
        IF o = func
        THEN OrderedDictSet(TableOf(rs, func), <<>>, func)
        ELSE rs[o]]

\* One pass of the loop body's tests: same arity, every argument an instance
\* of the type at its position.
matches_exact(args, rule_args) ==
    /\ Len(args) = Len(rule_args)
    /\ \A i \in 1..Len(args) : args[i].cls = rule_args[i]

matches(args, rule_args) ==
    /\ Len(args) = Len(rule_args)
    /\ \A i \in 1..Len(args) : isinstance(args[i], rule_args[i])

\* The for loop over the table's items: the position of the first entry
\* whose tests pass, 0 when the loop runs to its end.
FirstMatchLast(table, args) ==
    LET hits == {k \in 1..Len(table) : matches(args, table[k].args)}
    IN  IF hits = {} THEN 0 ELSE CHOOSE k \in hits : \A j \in hits : j <= k

FirstMatch(table, args) ==
    LET hits == {k \in 1..Len(table) : matches(args, table[k].args)}
    IN  IF hits = {} THEN 0 ELSE CHOOSE k \in hits : \A j \in hits : k <= j

\* One call rule_test(ctx, *args) of the predicate of the entry at pos.
Invocation(entry, pos, actor, args) ==
    [pos |-> pos, test |-> entry.test, actor |-> actor, args |-> args]

\* The loop's else branch: evaluate the predicate, raise on a false result
\* when asked to, otherwise log the decision and return the result.
MatchedNoRaise(entry, pos, actor, args, raise_) ==
    LET result == Call(entry.test, actor, args)
    IN  [outcome |-> "return", value |-> result,
         invoked |-> <<Invocation(entry, pos, actor, args)>>,
         warned |-> FALSE, logged |-> TRUE]

MatchedAlwaysRaise(entry, pos, actor, args, raise_) ==
    LET result == Call(entry.test, actor, args)
    IN  IF ~result
        THEN [outcome |-> "NotAuthorized", value |-> FALSE,
              invoked |-> <<Invocation(entry, pos, actor, args)>>,
              warned |-> FALSE, logged |-> FALSE]
        ELSE [outcome |-> "return", value |-> result,
              invoked |-> <<Invocation(entry, pos, actor, args)>>,
              warned |-> FALSE, logged |-> TRUE]

MatchedTwice(entry, pos, actor, args, raise_) ==
    LET result == Call(entry.test, actor, args)
    IN  IF ~result /\ raise_
        THEN [outcome |-> "NotAuthorized", value |-> FALSE,
              invoked |-> <<Invocation(entry, pos, actor, args)>>,
              warned |-> FALSE, logged |-> FALSE]
        ELSE [outcome |-> "return", value |-> result,
              invoked |-> <<Invocation(entry, pos, actor, args),
                            Invocation(entry, pos, actor, args)>>,
              warned |-> FALSE, logged |-> TRUE]

Matched(entry, pos, actor, args, raise_) ==
    LET result == Call(entry.test, actor, args)
    IN  IF ~result /\ raise_
        THEN [outcome |-> "NotAuthorized", value |-> FALSE,
              invoked |-> <<Invocation(entry, pos, actor, args)>>,
              warned |-> FALSE, logged |-> FALSE]
        ELSE [outcome |-> "return", value |-> result,
              invoked |-> <<Invocation(entry, pos, actor, args)>>,
              warned |-> FALSE, logged |-> TRUE]

\* After the loop: warn about the missing rule, then raise or return False.
NoRuleGrant(raise_) ==
    [outcome |-> "return", value |-> TRUE,
     invoked |-> <<>>, warned |-> FALSE, logged |-> FALSE]

NoRule(raise_) ==
    [outcome |-> IF raise_ THEN "NotAuthorized" ELSE "return", value |-> FALSE,
     invoked |-> <<>>, warned |-> TRUE, logged |-> FALSE]

\* self.rules after permits has read the operation's table with
\* self.rules.get(operation, {}): get neither inserts nor removes.
rules_pop(rs, operation) ==
    [o \in DOMAIN rs \ {operation} |-> rs[o]]

rules_setdefault(rs, operation) ==
    [o \in DOMAIN rs \cup {operation} |-> TableOf(rs, operation)]

rules_get(rs, operation) == rs

\* RuleSet.permits(ctx, operation, *args, raise_=False)
permits(rs, actor, operation, args, raise_) ==
    LET table == TableOf(rs, operation)
        k == FirstMatch(table, args)
    IN  IF k = 0
        THEN NoRule(raise_)
        ELSE Matched(table[k], k, actor, args, raise_)

\* ConfiguredAuthModule.permits: a proxy for the configured ruleset.
ConfiguredAuthModule_permits(rs, actor, operation, args, raise_) ==
    permits(rs, actor, operation, args, raise_)

\* The context member 'permits': the decision function bound to the context.
ctx_permits(rs, actor, operation, args, raise_) ==
    ConfiguredAuthModule_permits(rs, actor, operation, args, raise_)

\* The history after a registration of func under (operation, args).
Registered(h, operation, args, func) ==
    [key \in DOMAIN h \cup {<<operation, args>>} |->
        IF key = <<operation, args>> THEN func ELSE h[key]]

\* The order of first registrations after a registration under
\* (operation, args): a key not registered before goes to the end of its
\* operation's order, a key registered before stays where it is.
FirstsAfter(f, h, operation, args) ==
    IF <<operation, args>> \in DOMAIN h
    THEN f
    ELSE [o \in DOMAIN f \cup {operation} |->
             IF o = operation
             THEN (IF o \in DOMAIN f THEN f[o] ELSE <<>>) \o <<args>>
             ELSE f[o]]

\* The registration replaces, by another predicate, the predicate of a key
\* that is not the last registered of its operation.
Refronts(f, h, operation, args, func) ==
    /\ <<operation, args>> \in DOMAIN h
    /\ h[<<operation, args>>] # func
    /\ f[operation][Len(f[operation])] # args

NoCall ==
    [called |-> FALSE, operation |-> "", args |-> <<>>, raise_ |-> FALSE,
     actor |-> 0, outcome |-> "", value |-> FALSE, invoked |-> <<>>,
     warned |-> FALSE, logged |-> FALSE,
     repeated |-> FALSE, outcome2 |-> "", value2 |-> FALSE, before |-> <<>>]

\* RuleSet(): no rules.
RuleSetInit ==
    /\ rules = <<>>
    /\ last = NoCall
    /\ latest = <<>>
    /\ reregistered = FALSE
    /\ firsts = <<>>
    /\ refronted = FALSE

Rule(operation, args, func) ==
    /\ ~last.called
    /\ \/ CountRules(rules, DOMAIN rules) < MaxRules
       \/ HasKey(TableOf(rules, operation), args)
    /\ rules' = capturer(rules, operation, args, func)
    /\ latest' = Registered(latest, operation, args, func)
    /\ reregistered' = (reregistered \/ <<operation, args>> \in DOMAIN latest)
    /\ firsts' = FirstsAfter(firsts, latest, operation, args)
    /\ refronted' = (refronted \/ Refronts(firsts, latest, operation, args, func))
    /\ UNCHANGED last

RuleBare(func) ==
    /\ ~last.called
    /\ \/ CountRules(rules, DOMAIN rules) < MaxRules
       \/ HasKey(TableOf(rules, func), <<>>)
    /\ rules' = rule_bare(rules, func)
    /\ latest' = Registered(latest, func, <<>>, func)
    /\ reregistered' = (reregistered \/ <<func, <<>>>> \in DOMAIN latest)
    /\ firsts' = FirstsAfter(firsts, latest, func, <<>>)
    /\ refronted' = (refronted \/ Refronts(firsts, latest, func, <<>>, func))
    /\ UNCHANGED last

Permits(actor, operation, args, raise_) ==
    /\ ~last.called
    /\ LET r == ctx_permits(rules, actor, operation, args, raise_)
       IN  last' = [called |-> TRUE, operation |-> operation, args |-> args,
                    raise_ |-> raise_, actor |-> actor, outcome |-> r.outcome,
                    value |-> r.value, invoked |-> r.invoked,
                    warned |-> r.warned, logged |-> r.logged,
                    repeated |-> FALSE, outcome2 |-> "", value2 |-> FALSE,
                    before |-> rules]
    /\ rules' = rules_get(rules, operation)
    /\ UNCHANGED <<latest, reregistered, firsts, refronted>>

\* The caller makes the same permits call once more, right after the first.
PermitsAgain ==
    /\ last.called /\ ~last.repeated
    /\ LET r == ctx_permits(rules, last.actor, last.operation, last.args,
                            last.raise_)
       IN  last' = [last EXCEPT !.repeated = TRUE, !.outcome2 = r.outcome,
                                !.value2 = r.value]
    /\ rules' = rules_get(rules, last.operation)
    /\ UNCHANGED <<latest, reregistered, firsts, refronted>>

\* The caller takes the outcome (the value, or the exception) and goes on.
Return ==
    /\ last.called
    /\ last' = NoCall
    /\ UNCHANGED <<rules, latest, reregistered, firsts, refronted>>

(***************************************************************************)
(* The authenticator chain's inputs: actor records, requests, links        *)
(***************************************************************************)
\* No actor (Python's None).
None == [cls |-> "None", id |-> 0]

\* The actor records the persistence layer may hold, of two actor classes.
Records == {[cls |-> "User", id |-> 1], [cls |-> "Admin", id |-> 1]}

Actors == Records \cup {None}

\* The username and password columns of a record.
username(u) == "alice"
password(u) == IF u.cls = "User" THEN "pA" ELSE "pB"

\* A request: whether the context has one at all, and its POST fields.
Req(has_request, fields, u, p) ==
    [has_request |-> has_request, fields |-> fields, username |-> u, password |-> p]

NoRequest == Req(FALSE, {}, "", "")
EmptyPost == Req(TRUE, {}, "", "")

Requests ==
    { NoRequest, EmptyPost,
      Req(TRUE, {"username"}, "alice", ""),
      Req(TRUE, {"password"}, "", "pA"),
      Req(TRUE, {"username", "password"}, "alice", "pA"),
      Req(TRUE, {"username", "password"}, "alice", "pB"),
      Req(TRUE, {"username", "password"}, "zed", "pA") }

\* Authenticator specifications as the configuration lists them.
Link(kind, session_key, cls) ==
    [kind |-> kind, session_key |-> session_key, cls |-> cls]

NullAuthenticator == Link("Null", "", "None")

LinkSpecs ==
    { Link("Session", "actor", "User"),    \* SessionAuthenticator(actor_class=User)
      Link("Session", "blob", "None"),     \* SessionAuthenticator(session_key='blob')
      Link("Login", "", "User"),           \* LoginAuthenticator(User)
      Link("Login", "", "Admin") }         \* LoginAuthenticator(Admin)

RECURSIVE SeqsUpTo(_)
SeqsUpTo(n) ==
    IF n = 0 THEN {<<>>}
    ELSE LET shorter == SeqsUpTo(n - 1)
         IN  shorter \cup
             {Append(q, l) : q \in {x \in shorter : Len(x) = n - 1}, l \in LinkSpecs}

\* The values of the 'authenticators' configuration key: lists of distinct
\* authenticators.
AuthenticatorLists ==
    {q \in SeqsUpTo(MaxChain) : \A a, b \in 1..Len(q) : a # b => q[a] # q[b]}

Modules == {"__init__", "_init"}

EmptySession == [k \in {} |-> None]

SessionSet(s, key, val) ==
    [k \in DOMAIN s \cup {key} |-> IF k = key THEN val ELSE s[k]]

SessionDel(s, key) == [k \in DOMAIN s \ {key} |-> s[k]]

(***************************************************************************)
(* authenticator.py, pyramid.py                                            *)
(***************************************************************************)
pickle_dumps(actor) == [pickle |-> TRUE, cls |-> actor.cls, id |-> actor.id]
pickle_loads(data) == [cls |-> data.cls, id |-> data.id]

\* ctx.db.query(cls).get(id)
db_get(d, cls, id) ==
    IF \E u \in d : u.cls = cls /\ u.id = id
    THEN CHOOSE u \in d : u.cls = cls /\ u.id = id
    ELSE None

\* ctx.db.query(cls).filter(cls.username == name).first()
db_first_by_username(d, cls, name) ==
    IF \E u \in d : u.cls = cls /\ username(u) = name
    THEN CHOOSE u \in d : u.cls = cls /\ username(u) = name
    ELSE None

\* SessionAuthenticator._dump
dump_id(link, actor) ==
    [pickle |-> FALSE, cls |-> "", id |-> actor.id]

dump(link, actor) ==
    IF link.cls = "None"
    THEN pickle_dumps(actor)
    ELSE [pickle |-> FALSE, cls |-> "", id |-> actor.id]

\* SessionAuthenticator._load
load(link, d, data) ==
    IF link.cls = "None"
    THEN pickle_loads(data)
    ELSE db_get(d, link.cls, data.id)

Entry(i, op, actor) == [link |-> i, op |-> op, actor |-> actor]

\* store(ctx, actor) on link i of the chain: NullAuthenticator.store,
\* SessionAuthenticator.store, and Authenticator.store (inherited by
\* LoginAuthenticator). A KeyError raised by the del statement leaves through
\* every caller.
RECURSIVE store(_, _, _, _)
store(chain, i, s, actor) ==
    LET link == chain[i]
        me == <<Entry(i, "store", actor)>>
    IN  IF link.kind = "Null"
        THEN [session |-> s, calls |-> me, error |-> ""]
        ELSE IF link.kind = "Session"
        THEN IF actor = None /\ link.session_key \notin DOMAIN s
             THEN [session |-> s, calls |-> me, error |-> "KeyError"]
             ELSE LET s2 == IF actor = None
                            THEN SessionDel(s, link.session_key)
                            ELSE SessionSet(s, link.session_key, dump(link, actor))
                      n == store(chain, i + 1, s2, actor)
                  IN  [session |-> n.session, calls |-> me \o n.calls,
                       error |-> n.error]
        ELSE LET n == store(chain, i + 1, s, actor)
             IN  [session |-> n.session, calls |-> me \o n.calls, error |-> n.error]

login_user_no_compare(link, c) ==
    IF ~c.request.has_request THEN None
    ELSE IF "username" \notin c.request.fields THEN None
    ELSE IF "password" \notin c.request.fields THEN None
    ELSE db_first_by_username(c.db, link.cls, c.request.username)

\* The record LoginAuthenticator._login_attempt accepts: None on any miss.
login_user(link, c) ==
    IF ~c.request.has_request THEN None
    ELSE IF "username" \notin c.request.fields THEN None
    ELSE IF "password" \notin c.request.fields THEN None
    ELSE LET user == db_first_by_username(c.db, link.cls, c.request.username)
         IN  IF user = None THEN None
             ELSE IF password(user) # c.request.password THEN None
             ELSE user

login_attempt_store_first(chain, i, c) ==
    LET found == login_user_no_compare(chain[i], c)
        user == login_user(chain[i], c)
    IN  IF found = None
        THEN [user |-> None, session |-> c.session, calls |-> <<>>, error |-> ""]
        ELSE LET st == store(chain, i + 1, c.session, found)
             IN  [user |-> user, session |-> st.session, calls |-> st.calls,
                  error |-> st.error]

\* LoginAuthenticator._login_attempt: on success, next.store(ctx, user).
login_attempt(chain, i, c) ==
    LET user == login_user(chain[i], c)
    IN  IF user = None
        THEN [user |-> None, session |-> c.session, calls |-> <<>>, error |-> ""]
        ELSE LET st == store(chain, i + 1, c.session, user)
             IN  [user |-> user, session |-> st.session, calls |-> st.calls,
                  error |-> st.error]

\* retrieve(ctx) on link i of the chain: NullAuthenticator.retrieve,
\* SessionAuthenticator.retrieve, LoginAuthenticator.retrieve.
RECURSIVE retrieve(_, _, _)
retrieve(chain, i, c) ==
    LET link == chain[i]
        me == <<Entry(i, "retrieve", None)>>
    IN  IF link.kind = "Null"
        THEN [actor |-> None, session |-> c.session, calls |-> me, error |-> ""]
        ELSE IF link.kind = "Session"
        THEN IF link.session_key \in DOMAIN c.session
             THEN [actor |-> load(link, c.db, c.session[link.session_key]),
                   session |-> c.session, calls |-> me, error |-> ""]
             ELSE LET n == retrieve(chain, i + 1, c)
                  IN  [n EXCEPT !.calls = me \o @]
        ELSE LET a == login_attempt(chain, i, c)
             IN  IF a.error # ""
                 THEN [actor |-> None, session |-> a.session,
                       calls |-> me \o a.calls, error |-> a.error]
                 ELSE IF a.user = None
                 THEN LET n == retrieve(chain, i + 1, [c EXCEPT !.session = a.session])
                      IN  [n EXCEPT !.calls = me \o a.calls \o @]
                 ELSE [actor |-> a.user, session |-> a.session,
                       calls |-> me \o a.calls, error |-> ""]

(***************************************************************************)
(* _init.py and __init__.py: init, the context member's constructor,       *)
(* destructor and persister                                                *)
(***************************************************************************)
\* for line in reversed(parse_list(conf['authenticators'])):
\*     authenticator = parse_call(line, (auth, authenticator))
RECURSIVE wrap(_, _, _)
wrap(lines, k, inner) ==
    IF k = 0 THEN inner ELSE wrap(lines, k - 1, <<lines[k]>> \o inner)

build_chain(lines) == wrap(lines, Len(lines), <<NullAuthenticator>>)

NoCtx == [live |-> FALSE, actor |-> None, old |-> None]

NoObs ==
    [op |-> "", request |-> NoRequest, session |-> EmptySession, actor |-> None,
     old |-> None, stored |-> FALSE, calls |-> <<>>, result |-> None,
     error |-> "", link |-> 0, mid |-> EmptySession]

Configured == authenticator # <<>>

NoLogin == [actor |-> None, down |-> FALSE]

\* The history across a context's creation: a credential login in it is
\* recorded (a login is the one path of retrieve that calls store); a context
\* that submits no credentials leaves the history; any other submission
\* ends it.
LoginAfter(h, request, r) ==
    IF \E n \in 1..Len(r.calls) : r.calls[n].op = "store"
    THEN [actor |-> r.actor, down |-> FALSE]
    ELSE IF request.fields = {} THEN h
    ELSE NoLogin

\* The configurations init is given: the plural list (empty as in defaults
\* when the key is not given), and the singular key, <<>> when not given.
ConfDicts ==
    {[authenticators |-> lines, authenticator |-> single] :
        lines \in AuthenticatorLists,
        single \in {<<>>} \cup {<<l>> : l \in LinkSpecs}}

NotStarted ==
    [status |-> "none",
     conf |-> [authenticators |-> <<>>, authenticator |-> <<>>],
     registered |-> {}, built |-> <<>>]

\* init, up to the chain's construction: the singular key stands for a list
\* of one, and is refused next to a non-empty plural list.
init_conf_no_assert(conf) ==
    IF conf.authenticator # <<>>
    THEN [error |-> "", authenticators |-> conf.authenticator]
    ELSE [error |-> "", authenticators |-> conf.authenticators]

init_conf(conf) ==
    IF conf.authenticator # <<>>
    THEN IF conf.authenticators # <<>>
         THEN [error |-> "AssertionError", authenticators |-> conf.authenticators]
         ELSE [error |-> "", authenticators |-> conf.authenticator]
    ELSE [error |-> "", authenticators |-> conf.authenticators]

\* _register_ctx_actor and _register_ctx_permits with ctx.member = 'actor'.
CtxMembers == {"actor", "persist_actor", "permits"}

\* init(confdict, ctx) of either module.
InitModule(m, confdict) ==
    /\ startup.status = "none"
    /\ LET c == init_conf(confdict)
       IN  IF c.error # ""
           THEN /\ startup' = [status |-> c.error, conf |-> confdict,
                               registered |-> {}, built |-> <<>>]
                /\ authenticator' = <<>>
           ELSE /\ startup' = [status |-> "ok", conf |-> confdict,
                               registered |-> CtxMembers,
                               built |-> build_chain(c.authenticators)]
                /\ authenticator' = build_chain(c.authenticators)
    /\ module' = m
    /\ UNCHANGED <<db, session, ctx, obs, login>>

\* The context member's constructor: auth.authenticator.retrieve(ctx).
Constructor(request) ==
    /\ Configured /\ "actor" \in startup.registered
    /\ obs.op = "" /\ ~ctx.live
    /\ LET r == retrieve(authenticator, 1,
                         [session |-> session, db |-> db, request |-> request])
       IN  /\ session' = r.session
           /\ ctx' = [live |-> r.error = "", actor |-> r.actor, old |-> r.actor]
           /\ obs' = [op |-> "constructor", request |-> request,
                      session |-> session, actor |-> None, old |-> None,
                      stored |-> FALSE, calls |-> r.calls, result |-> r.actor,
                      error |-> r.error, link |-> 1, mid |-> session]
           /\ login' = LoginAfter(login, request, r)
    /\ UNCHANGED <<startup, authenticator, module, db>>

\* Application code assigns the context member.
SetActor(a) ==
    /\ obs.op = "" /\ ctx.live /\ a # ctx.actor
    /\ ctx' = [ctx EXCEPT !.actor = a]
    /\ login' = NoLogin
    /\ UNCHANGED <<startup, authenticator, module, db, session, obs>>

\* The persist_<member> function: store the current member value now.
Persist ==
    /\ obs.op = "" /\ ctx.live
    /\ LET st == store(authenticator, 1, session, ctx.actor)
       IN  /\ session' = st.session
           /\ obs' = [op |-> "persist", request |-> NoRequest,
                      session |-> session, actor |-> ctx.actor, old |-> ctx.old,
                      stored |-> TRUE, calls |-> st.calls, result |-> None,
                      error |-> st.error, link |-> 1, mid |-> st.session]
    /\ login' = NoLogin
    /\ UNCHANGED <<startup, authenticator, module, db, ctx>>

\* The destructor of __init__.py stores when new != old; that of _init.py
\* stores always.
destructor_stores(m, new, old) ==
    IF m = "__init__" THEN new # old ELSE TRUE

\* The context member's destructor, at context teardown.
Destructor ==
    /\ obs.op = "" /\ ctx.live
    /\ LET new == ctx.actor
           doStore == destructor_stores(module, new, ctx.old)
           st == IF doStore
                 THEN store(authenticator, 1, session, new)
                 ELSE [session |-> session, calls |-> <<>>, error |-> ""]
       IN  /\ session' = st.session
           /\ obs' = [op |-> "destructor", request |-> NoRequest,
                      session |-> session, actor |-> new, old |-> ctx.old,
                      stored |-> doStore, calls |-> st.calls, result |-> None,
                      error |-> st.error, link |-> 1, mid |-> st.session]
    /\ ctx' = NoCtx
    /\ login' = IF login.actor # None THEN [login EXCEPT !.down = TRUE]
                ELSE login
    /\ UNCHANGED <<startup, authenticator, module, db>>

\* Application code calls store(ctx, a) and then retrieve(ctx) on a session
\* link of the chain, link i, with a the context member's current value (any
\* actor, or None, that the application has assigned). A KeyError of store
\* is recorded in obs.error; the caller handles it and goes on to retrieve.
StoreRetrieve(i, request) ==
    /\ obs.op = "" /\ ctx.live
    /\ i \in 1..Len(authenticator) /\ authenticator[i].kind = "Session"
    /\ LET a == ctx.actor
           st == store(authenticator, i, session, a)
           rt == retrieve(authenticator, i,
                          [session |-> st.session, db |-> db,
                           request |-> request])
       IN  /\ session' = rt.session
           /\ obs' = [op |-> "store_retrieve", request |-> request,
                      session |-> session, actor |-> a, old |-> ctx.old,
                      stored |-> TRUE, calls |-> st.calls \o rt.calls,
                      result |-> rt.actor,
                      error |-> IF st.error # "" THEN st.error ELSE rt.error,
                      link |-> i, mid |-> st.session]
    /\ login' = NoLogin
    /\ UNCHANGED <<startup, authenticator, module, db, ctx>>

\* The chain operation's outcome reaches its caller.
ChainReturn ==
    /\ obs.op # ""
    /\ obs' = NoObs
    /\ UNCHANGED <<startup, authenticator, module, db, session, ctx, login>>

\* The persistence layer loses a record (an account is deleted).
DbDelete(u) ==
    /\ Configured /\ obs.op = "" /\ u \in db
    /\ db' = db \ {u}
    /\ login' = IF u = login.actor THEN NoLogin ELSE login
    /\ UNCHANGED <<startup, authenticator, module, session, ctx, obs>>

\* Before init: no chain, every record present, an empty session.
AuthIdle ==
    /\ startup = NotStarted
    /\ authenticator = <<>>
    /\ module = ""
    /\ db = Records
    /\ session = EmptySession
    /\ ctx = NoCtx
    /\ obs = NoObs
    /\ login = NoLogin

Init == RuleSetInit /\ AuthIdle

Next ==
    \/ \E operation \in Operations, args \in Signatures, func \in Funcs :
          Rule(operation, args, func) /\ UNCHANGED authVars
    \/ \E func \in Funcs : RuleBare(func) /\ UNCHANGED authVars
    \/ \E actor \in RuleActors, operation \in OpNames, args \in ArgLists,
          raise_ \in BOOLEAN :
          Permits(actor, operation, args, raise_) /\ UNCHANGED authVars
    \/ PermitsAgain /\ UNCHANGED authVars
    \/ Return /\ UNCHANGED authVars

Spec == Init /\ [][Next]_vars

AuthNext ==
    \/ \E m \in Modules, confdict \in ConfDicts :
          InitModule(m, confdict) /\ UNCHANGED ruleVars
    \/ \E request \in Requests : Constructor(request) /\ UNCHANGED ruleVars
    \/ \E a \in Actors : SetActor(a) /\ UNCHANGED ruleVars
    \/ Persist /\ UNCHANGED ruleVars
    \/ \E i \in 1..MaxChain, request \in Requests :
          StoreRetrieve(i, request) /\ UNCHANGED ruleVars
    \/ Destructor /\ UNCHANGED ruleVars
    \/ ChainReturn /\ UNCHANGED ruleVars
    \/ \E u \in Records : DbDelete(u) /\ UNCHANGED ruleVars

AuthSpec == Init /\ [][AuthNext]_vars

\* The application as a whole, as far as the two parts can be explored
\* together: the decision operations on any rule table while init has not
\* run, the identity operations with the RuleSet that init creates when none
\* is configured (no rules).
AppNext ==
    \/ startup.status = "none" /\ Next
    \/ rules = <<>> /\ ~last.called /\ AuthNext

AppSpec == Init /\ [][AppNext]_vars

(***************************************************************************)
(* Claims about the RuleSet, checked under Spec.                           *)
(* While a call's outcome is outstanding (last.called) no rule is          *)
(* registered, so rules is the table the call ran against.                 *)
(***************************************************************************)
LastTable == TableOf(rules, last.operation)

\* Positions of the entries whose signature matches the call's arguments.
LastHits == {k \in 1..Len(LastTable) : matches(last.args, LastTable[k].args)}

\* The operation of the call has no registered rule at all.
LastOpHasNoRule == last.operation \notin DOMAIN rules \/ LastTable = <<>>

\* C1: fail-closed default. A permits call without raise-on-deny on an
\* operation that has no registered rule returns False and warns about the
\* missing rule, whatever the arguments and the context; it never returns True.
C1_FailClosed ==
    (last.called /\ LastOpHasNoRule /\ ~last.raise_)
        => /\ last.outcome = "return"
           /\ last.value = FALSE
           /\ last.warned
           /\ last.invoked = <<>>

\* C1 witness: a call with arguments on a rule-less operation, by the
\* privileged actor, while another operation does have rules.
C1_Witness ==
    /\ last.called /\ LastOpHasNoRule /\ ~last.raise_
    /\ last.args # <<>> /\ last.actor = 1
    /\ rules # <<>>
    /\ last.outcome = "return" /\ last.value = FALSE /\ last.warned

\* C2: first-match dispatch. When two entries of the operation's table, S1
\* in front of S2 in registration order, both match the argument list, the
\* predicate of S2 is not invoked; the first registered matching entry S1 is
\* the one predicate invoked, once, and the outcome of permits is its
\* result (returned, or raised as NotAuthorized when false under raise_).
C2_FirstMatch ==
    last.called =>
        \A k1, k2 \in LastHits :
            (k1 < k2) =>
                /\ \A n \in 1..Len(last.invoked) : last.invoked[n].pos # k2
                /\ (\A j \in LastHits : k1 <= j) =>
                      /\ last.invoked = <<Invocation(LastTable[k1], k1, last.actor,
                                                   last.args)>>
                      /\ LET res == Call(LastTable[k1].test, last.actor, last.args)
                         IN  IF last.outcome = "return"
                             THEN last.value = res
                             ELSE last.raise_ /\ ~res

\* C2 witness: a Derived argument matched by (Base,) in front of (Derived,),
\* bound to different predicates that disagree on the call; S1's result (True)
\* is what permits returned.
C2_Witness ==
    /\ last.called /\ last.args = <<objD>>
    /\ Len(LastTable) >= 2
    /\ LastTable[1].args = <<"Base">> /\ LastTable[2].args = <<"Derived">>
    /\ LastTable[1].test # LastTable[2].test
    /\ Call(LastTable[1].test, last.actor, last.args)
    /\ ~Call(LastTable[2].test, last.actor, last.args)
    /\ last.outcome = "return" /\ last.value = TRUE

\* C3: raise-on-deny. A permits call with raise_ returns normally only with
\* a True result of the matched predicate; when the matched predicate is
\* false, or no signature matches (an operation without rules included), it
\* raises NotAuthorized and returns no value.
C3_RaiseOnDeny ==
    (last.called /\ last.raise_) =>
        /\ last.outcome \in {"return", "NotAuthorized"}
        /\ (last.outcome = "return") =>
              /\ last.value = TRUE
              /\ LastHits # {}
              /\ \E k \in LastHits :
                    /\ \A j \in LastHits : k <= j
                    /\ Call(LastTable[k].test, last.actor, last.args)
        /\ (LastHits = {}) => last.outcome = "NotAuthorized"
        /\ (\E k \in LastHits :
               /\ \A j \in LastHits : k <= j
               /\ ~Call(LastTable[k].test, last.actor, last.args))
              => last.outcome = "NotAuthorized"

\* C3 witness: a matched predicate returned False under raise_ and the call
\* raised NotAuthorized.
C3_Witness ==
    /\ last.called /\ last.raise_
    /\ LastHits # {}
    /\ last.invoked # <<>>
    /\ last.outcome = "NotAuthorized"

\* C4: NotAuthorized only on opt-in. A permits call without raise_ never
\* raises: it returns, and a denial (the matched predicate false, or no
\* matching rule) is reported as the value False.
C4_NoRaiseWithoutOptIn ==
    (last.called /\ ~last.raise_) =>
        /\ last.outcome = "return"
        /\ (LastHits = {}) => last.value = FALSE
        /\ (\E k \in LastHits :
               /\ \A j \in LastHits : k <= j
               /\ ~Call(LastTable[k].test, last.actor, last.args))
              => last.value = FALSE

\* C4 witness: a matched predicate returned False without raise_ and the call
\* returned False.
C4_Witness ==
    /\ last.called /\ ~last.raise_
    /\ last.invoked # <<>>
    /\ last.outcome = "return" /\ last.value = FALSE

(***************************************************************************)
(* Claims about the authenticator chain, checked under AuthSpec.           *)
(* While an operation's outcome is outstanding (obs.op # "") the db is the *)
(* one the operation ran against; obs.session is the session it started    *)
(* from and session the one it left.                                       *)
(***************************************************************************)
ObsCtx == [session |-> obs.session, db |-> db, request |-> obs.request]

\* What a link's own source yields: the actor it resolves by itself, None
\* when it resolves none.
OwnSource(link, c) ==
    IF link.kind = "Session"
    THEN IF link.session_key \in DOMAIN c.session
         THEN load(link, c.db, c.session[link.session_key])
         ELSE None
    ELSE IF link.kind = "Login"
    THEN login_user(link, c)
    ELSE None

\* The links whose retrieve / store was invoked, in invocation order.
Invoked(op) ==
    LET picked == SelectSeq(obs.calls, LAMBDA e : e.op = op)
    IN  [n \in 1..Len(picked) |-> picked[n].link]

InvokedSet(op) == {obs.calls[n].link : n \in {m \in 1..Len(obs.calls) : obs.calls[m].op = op}}

\* C5: chain retrieval short-circuits. For a chain [A, B, Null], when A's own
\* source yields a definite actor, retrieve on the head returns it and invokes
\* neither B.retrieve nor Null.retrieve; when A's source yields none,
\* B.retrieve is invoked next and its result is what the head returns.
C5_ChainRetrieve ==
    (obs.op = "constructor" /\ Len(authenticator) >= 3) =>
        LET own == OwnSource(authenticator[1], ObsCtx)
        IN  /\ (own # None) =>
                  /\ obs.result = own
                  /\ InvokedSet("retrieve") = {1}
            /\ (own = None) =>
                  /\ Len(Invoked("retrieve")) >= 2
                  /\ Invoked("retrieve")[2] = 2
                  /\ obs.result = retrieve(authenticator, 2, ObsCtx).actor

\* C6: chain store reaches every link. For every chain, actor value (None
\* included) and session state, store invoked on the head runs each link's
\* store exactly once, in head-to-tail order, and raises nothing.
C6_ChainStore ==
    (obs.op \in {"persist", "destructor"} /\ obs.calls # <<>>) =>
        /\ obs.error = ""
        /\ Invoked("store") = [k \in 1..Len(authenticator) |-> k]
        /\ \A n \in 1..Len(obs.calls) : obs.calls[n].actor = obs.actor

\* C7: teardown persists only on change. At context teardown the chain's
\* store is invoked if and only if the member's value differs from the actor
\* resolved at context creation; when unchanged, the session is left as it was.
C7_TeardownOnlyOnChange ==
    (obs.op = "destructor") =>
        /\ (obs.calls # <<>>) <=> (obs.actor # obs.old)
        /\ (obs.actor = obs.old) => session = obs.session

\* C8: a miss at any single link delegates down the chain. Whenever a link
\* whose retrieve is invoked resolves no actor from its own source (session
\* key absent, or present with no record under the stored id; a failed login
\* attempt), it raises nothing and returns what next.retrieve returns, so
\* "no actor" is delivered only after the null link has been reached.
C8_MissDelegates ==
    (obs.op = "constructor") =>
        /\ obs.error = ""
        /\ \A i \in InvokedSet("retrieve") :
              (i < Len(authenticator) /\ OwnSource(authenticator[i], ObsCtx) = None)
                  => /\ (i + 1) \in InvokedSet("retrieve")
                     /\ obs.result = retrieve(authenticator, i + 1, ObsCtx).actor
        /\ (obs.result = None) => Len(authenticator) \in InvokedSet("retrieve")

\* The submitted fields are a username and a password that match a record of
\* the link's actor class.
ValidCredentials(link, c) ==
    /\ c.request.has_request
    /\ {"username", "password"} \subseteq c.request.fields
    /\ \E u \in c.db : /\ u.cls = link.cls
                       /\ username(u) = c.request.username
                       /\ password(u) = c.request.password

CredentialsOwner(link, c) ==
    CHOOSE u \in c.db : /\ u.cls = link.cls
                        /\ username(u) = c.request.username
                        /\ password(u) = c.request.password

\* Calls of store on link j during the observed operation.
StoresOn(j) == {n \in 1..Len(obs.calls) : obs.calls[n] .op = "store" /\ obs.calls[n].link = j}

\* C9: the credential-submission link. When both fields are submitted and
\* match a record, retrieve stores that actor through next.store exactly once
\* and returns it without invoking next.retrieve; on any miss the link stores
\* nothing and the result (and the session left) is that of next.retrieve.
C9_CredentialLink ==
    (obs.op = "constructor") =>
        \A i \in InvokedSet("retrieve") :
            (authenticator[i].kind = "Login") =>
                IF ValidCredentials(authenticator[i], ObsCtx)
                THEN LET u == CredentialsOwner(authenticator[i], ObsCtx)
                     IN  /\ Cardinality(StoresOn(i + 1)) = 1
                         /\ \A n \in StoresOn(i + 1) : obs.calls[n].actor = u
                         /\ obs.result = u
                         /\ (i + 1) \notin InvokedSet("retrieve")
                         /\ obs.error = ""
                ELSE LET nx == retrieve(authenticator, i + 1, ObsCtx)
                     IN  /\ StoresOn(i + 1) = {}
                         /\ (i + 1) \in InvokedSet("retrieve")
                         /\ obs.result = nx.actor
                         /\ session = nx.session

\* C9 witness: the head is a credential link in front of a session link, the
\* submitted credentials are valid, and the actor was stored and returned.
C9_Witness ==
    /\ obs.op = "constructor"
    /\ Len(authenticator) >= 3
    /\ authenticator[1].kind = "Login" /\ authenticator[2].kind = "Session"
    /\ ValidCredentials(authenticator[1], ObsCtx)
    /\ obs.result = CredentialsOwner(authenticator[1], ObsCtx)
    /\ session # obs.session
    /\ Cardinality(StoresOn(2)) = 1

\* Both fields submitted, but no record of the link's class matches them: an
\* unknown username or a wrong password.
CredentialMismatch(link, c) ==
    /\ c.request.has_request
    /\ {"username", "password"} \subseteq c.request.fields
    /\ ~ValidCredentials(link, c)

\* The run that submits no credential fields, from the same session and db.
NoCredentialsRun(i) ==
    retrieve(authenticator, i, [session |-> obs.session, db |-> db, request |-> EmptyPost])

\* C10 as stated: a credential mismatch at a credential link is
\* indistinguishable from submitting no credentials: from the same session
\* state and the same rest of the chain both runs return the same actor, leave
\* the same session, and raise nothing.
C10_MismatchIndistinguishable ==
    (obs.op = "constructor") =>
        \A i \in InvokedSet("retrieve") :
            (authenticator[i].kind = "Login"
                /\ CredentialMismatch(authenticator[i], ObsCtx))
                => /\ obs.result = NoCredentialsRun(i).actor
                   /\ session = NoCredentialsRun(i).session
                   /\ obs.error = "" /\ NoCredentialsRun(i).error = ""

\* No link behind link i is a credential-submission link.
NoLoginBehind(i) ==
    \A j \in (i + 1)..Len(authenticator) : authenticator[j].kind # "Login"

\* C10 amended: the same, for a credential link with no further
\* credential-submission link in the rest of its chain.
C10_MismatchIndistinguishableLastLogin ==
    (obs.op = "constructor") =>
        \A i \in InvokedSet("retrieve") :
            (authenticator[i].kind = "Login"
                /\ CredentialMismatch(authenticator[i], ObsCtx)
                /\ NoLoginBehind(i))
                => /\ obs.result = NoCredentialsRun(i).actor
                   /\ session = NoCredentialsRun(i).session
                   /\ obs.error = "" /\ NoCredentialsRun(i).error = ""

\* C10 witness: a wrong password for an existing user at the head credential
\* link, in front of a session link that resolves an actor: the run returned
\* that actor, as the run without credentials does.
C10_Witness ==
    /\ obs.op = "constructor"
    /\ authenticator[1].kind = "Login" /\ NoLoginBehind(1)
    /\ CredentialMismatch(authenticator[1], ObsCtx)
    /\ db_first_by_username(db, authenticator[1].cls, obs.request.username) # None
    /\ obs.result # None
    /\ obs.result = NoCredentialsRun(1).actor

(***************************************************************************)
(* Further claims about the RuleSet, checked under Spec.                   *)
(***************************************************************************)
\* A signature fits an argument list: as many entries as arguments, and the
\* class at every position among the classes of the argument at that position.
SignatureFits(args, sig) ==
    /\ Len(sig) = Len(args)
    /\ \A i \in 1..Len(args) : sig[i] \in Mro(args[i].cls)

\* C11: signature matching is arity first, then per-position subtype. A
\* predicate is invoked by permits only if its signature fits the call's
\* arguments; when some signature of the operation fits (a base-class
\* signature fits a subclass instance) a predicate is invoked; when no
\* signature of the operation fits, the call is handled as a call without a
\* rule (warning, denied: False, or NotAuthorized under raise_) even though
\* the operation has rules.
C11_SignatureMatching ==
    last.called =>
        LET fitting == {k \in 1..Len(LastTable) :
                           SignatureFits(last.args, LastTable[k].args)}
        IN  /\ \A n \in 1..Len(last.invoked) :
                  /\ last.invoked[n].pos \in fitting
                  /\ last.invoked[n].test = LastTable[last.invoked[n].pos].test
            /\ (fitting # {}) => last.invoked # <<>>
            /\ (fitting = {}) =>
                  /\ last.invoked = <<>>
                  /\ last.warned
                  /\ last.value = FALSE
                  /\ last.outcome = IF last.raise_ THEN "NotAuthorized"
                                    ELSE "return"

\* C11 witness: the operation's only rule is registered for (Base,) and the
\* call passes a Derived instance; the rule's predicate was invoked.
C11_Witness ==
    /\ last.called /\ last.args = <<objD>>
    /\ Len(LastTable) = 1 /\ LastTable[1].args = <<"Base">>
    /\ Len(last.invoked) = 1 /\ last.invoked[1].pos = 1

\* The operation has rules, none of whose signatures fits the call (an
\* arity mismatch and a class mismatch), and the call was denied with the
\* missing-rule warning.
C11_NoSignatureFits ==
    /\ last.called /\ last.args = <<objD, objO>>
    /\ Len(LastTable) = 2
    /\ \A k \in 1..2 : ~SignatureFits(last.args, LastTable[k].args)
    /\ last.invoked = <<>> /\ last.warned /\ last.value = FALSE

\* C12 as stated: exactly-once evaluation for every registered triple. For
\* every entry (signature, predicate) of the operation's table whose signature
\* the call's arguments match positionally, permits invokes exactly that
\* predicate, exactly once, with (context, *arguments), and no other
\* predicate.
C12_ExactlyOnce ==
    last.called =>
        \A k \in 1..Len(LastTable) :
            SignatureFits(last.args, LastTable[k].args) =>
                last.invoked = <<[pos |-> k, test |-> LastTable[k].test,
                                  actor |-> last.actor, args |-> last.args]>>

\* C12, amended: exactly-once evaluation of the first matching triple. For
\* the entry of the operation's table whose signature the arguments match
\* and that no earlier registered matching signature precedes, permits
\* invokes exactly that predicate, exactly once, with (context, *arguments),
\* and no other predicate.
C12_ExactlyOnceFirstMatching ==
    last.called =>
        \A k \in 1..Len(LastTable) :
            (/\ SignatureFits(last.args, LastTable[k].args)
             /\ \A j \in 1..(k - 1) :
                   ~SignatureFits(last.args, LastTable[j].args))
                => last.invoked = <<[pos |-> k, test |-> LastTable[k].test,
                                     actor |-> last.actor, args |-> last.args]>>

\* C12 witness: the second registered signature is the only one the two
\* arguments match; its predicate was invoked once with the context's actor
\* and both arguments, and returned normally.
C12_Witness ==
    /\ last.called /\ last.args = <<objD, objO>> /\ last.actor = 1
    /\ Len(LastTable) = 2
    /\ ~SignatureFits(last.args, LastTable[1].args)
    /\ LastTable[2].args = <<"Base", "Other">>
    /\ last.outcome = "return"
    /\ last.invoked = <<[pos |-> 2, test |-> LastTable[2].test,
                         actor |-> 1, args |-> <<objD, objO>>]>>

\* C13: unique key with silent overwrite. After any sequence of
\* registrations the table of an operation holds at most one entry per
\* signature; the entries are exactly the (operation, signature) keys ever
\* registered, each with the predicate registered last under the key; a bare
\* decorator registration is a registration under (function name, empty
\* signature).
C13_UniqueKeyLastWins ==
    /\ \A o \in DOMAIN rules :
          \A k1, k2 \in 1..Len(rules[o]) :
              (rules[o][k1].args = rules[o][k2].args) => k1 = k2
    /\ \A o \in DOMAIN rules :
          \A k \in 1..Len(rules[o]) :
              /\ <<o, rules[o][k].args>> \in DOMAIN latest
              /\ rules[o][k].test = latest[<<o, rules[o][k].args>>]
    /\ \A key \in DOMAIN latest :
          /\ key[1] \in DOMAIN rules
          /\ \E k \in 1..Len(rules[key[1]]) : rules[key[1]][k].args = key[2]

\* C13 witness: the only key ever registered, ("sing", ()), the key of the
\* bare decorator on sing, has been registered more than once, the last time
\* with predicate owns; the RuleSet holds the one entry, with owns.
C13_Witness ==
    /\ reregistered
    /\ DOMAIN latest = {<<"sing", <<>>>>}
    /\ latest[<<"sing", <<>>>>] = "owns"
    /\ rules["sing"] = <<[args |-> <<>>, test |-> "owns"]>>

\* C15: idempotence of permits. Two consecutive permits calls with the same
\* context, operation and arguments, with no registration in between, have
\* the same outcome: the same boolean returned, or NotAuthorized raised both
\* times under raise_.
C15_PermitsIdempotent ==
    (last.called /\ last.repeated) =>
        /\ last.outcome2 = last.outcome
        /\ last.value2 = last.value

\* C15 witness: a matched predicate was false under raise_, and both calls
\* raised NotAuthorized.
C15_Witness ==
    /\ last.called /\ last.repeated /\ last.raise_
    /\ last.invoked # <<>>
    /\ last.outcome = "NotAuthorized" /\ last.outcome2 = "NotAuthorized"

\* Both calls returned True from a matched predicate.
C15_BothGranted ==
    /\ last.called /\ last.repeated
    /\ last.outcome = "return" /\ last.value
    /\ last.outcome2 = "return" /\ last.value2

\* C18: every evaluated decision is logged before the outcome is delivered.
\* Whenever permits found a matching rule and evaluated its predicate, the
\* decision was logged at debug level: for a true result, for a false result
\* returned as False, and for a false result raised as NotAuthorized under
\* raise_.
C18_DecisionLogged ==
    (last.called /\ last.invoked # <<>>) => last.logged

(***************************************************************************)
(* Further claims about init and the authenticator chain, checked under    *)
(* AuthSpec.                                                               *)
(***************************************************************************)
\* The list init was configured with, when given under the plural key.
ConfiguredList == startup.conf.authenticators

\* The chain is the configured list in listed order, closed by the null link.
ChainAsListed ==
    /\ Len(authenticator) = Len(ConfiguredList) + 1
    /\ \A i \in 1..Len(ConfiguredList) : authenticator[i] = ConfiguredList[i]
    /\ authenticator[Len(authenticator)] = NullAuthenticator

\* C14: configured order is resolution priority. For a configured list
\* [L1, ..., Ln] init builds the chain with head L1, each Li followed by Li+1
\* and Ln by the null link; retrieve consults the links in listed order, the
\* first listed link whose own source resolves an actor decides the result,
\* and with an empty list retrieve returns no actor.
C14_ConfiguredOrder ==
    (startup.status = "ok" /\ startup.conf.authenticator = <<>>) =>
        /\ ChainAsListed
        /\ (obs.op = "constructor") =>
              /\ Invoked("retrieve") =
                    [k \in 1..Len(Invoked("retrieve")) |-> k]
              /\ \A k \in 1..Len(ConfiguredList) :
                    (/\ OwnSource(ConfiguredList[k], ObsCtx) # None
                     /\ \A j \in 1..(k - 1) :
                           OwnSource(ConfiguredList[j], ObsCtx) = None)
                        => obs.result = OwnSource(ConfiguredList[k], ObsCtx)
              /\ (ConfiguredList = <<>>) => obs.result = None

\* The part of C14 about init and the order of consultation alone: the chain
\* is the list as listed, and retrieve runs through a prefix of it in order.
C14_ChainStructure ==
    (startup.status = "ok" /\ startup.conf.authenticator = <<>>) =>
        /\ ChainAsListed
        /\ (obs.op = "constructor") =>
              /\ Invoked("retrieve") =
                    [k \in 1..Len(Invoked("retrieve")) |-> k]
              /\ (ConfiguredList = <<>>) => obs.result = None

\* No session link finds its key in the session with no record behind it.
NoStaleKey ==
    \A i \in 1..Len(authenticator) :
        (/\ authenticator[i].kind = "Session"
         /\ authenticator[i].session_key \in DOMAIN obs.session)
            => OwnSource(authenticator[i], ObsCtx) # None

\* C14 holds for every retrieve that meets no stale session key.
C14_ConfiguredOrderNoStaleKey ==
    NoStaleKey => C14_ConfiguredOrder

\* C17: malformed configuration fails fast. When init is given both the
\* singular 'authenticator' key and a non-empty plural 'authenticators' list
\* it fails, with no chain built and no context member registered (so no
\* context is ever created); given the singular key alone, it builds the
\* chain of a one-element list: that authenticator, then the null link.
C17_MalformedConfFailsFast ==
    (startup.status # "none" /\ startup.conf.authenticator # <<>>) =>
        IF startup.conf.authenticators # <<>>
        THEN /\ startup.status = "AssertionError"
             /\ authenticator = <<>>
             /\ startup.registered = {}
             /\ ~ctx.live /\ obs = NoObs /\ session = EmptySession
        ELSE /\ startup.status = "ok"
             /\ authenticator =
                   <<startup.conf.authenticator[1], NullAuthenticator>>
             /\ startup.registered = {"actor", "persist_actor", "permits"}

\* C17 witness: init was given the singular key (a login link) next to a
\* plural list of two links, and failed.
C17_Witness ==
    /\ startup.status = "AssertionError"
    /\ startup.conf.authenticator # <<>>
    /\ startup.conf.authenticator[1].kind = "Login"
    /\ Len(startup.conf.authenticators) = 2
    /\ authenticator = <<>>

\* The singular key alone: a context was created through the chain of that
\* one session link, which resolved an actor.
C17_SingularAlone ==
    /\ startup.status = "ok"
    /\ startup.conf.authenticators = <<>>
    /\ startup.conf.authenticator # <<>>
    /\ startup.conf.authenticator[1].kind = "Session"
    /\ Len(authenticator) = 2
    /\ obs.op = "constructor" /\ obs.result # None

\* C19: teardown of an unauthenticated context is harmless. For a context
\* whose session holds no entry under the session key of any session link,
\* whose actor resolved to None at creation and is None at teardown, the
\* teardown raises no error and leaves the session map as it was.
C19_AnonymousTeardownHarmless ==
    (/\ obs.op = "destructor"
     /\ obs.old = None /\ obs.actor = None
     /\ \A i \in 1..Len(authenticator) :
           (authenticator[i].kind = "Session")
               => authenticator[i].session_key \notin DOMAIN obs.session)
        => /\ obs.error = ""
           /\ session = obs.session

\* C19 holds where the destructor of __init__.py is the one registered.
C19_AnonymousTeardownHarmlessOldInit ==
    (module = "__init__") => C19_AnonymousTeardownHarmless

\* The chain holds a credential link and a session link, and every session
\* link keeps actors of the logged-in actor's class (or pickles them).
LoginAndSessionLinks ==
    /\ \E i \in 1..Len(authenticator) : authenticator[i].kind = "Login"
    /\ \E i \in 1..Len(authenticator) : authenticator[i].kind = "Session"
    /\ \A i \in 1..Len(authenticator) :
          (authenticator[i].kind = "Session")
              => authenticator[i].cls \in {"None", login.actor.cls}

\* C20: login survives to the next request regardless of link order. For a
\* chain with a credential link and a session link, in either order, after
\* the context of a successful credential login has been torn down, a later
\* context on the same session that submits no credentials resolves the
\* actor that logged in.
C20_LoginSurvives ==
    (/\ obs.op = "constructor" /\ obs.request.fields = {}
     /\ login.actor # None /\ login.down
     /\ LoginAndSessionLinks)
        => obs.result = login.actor

\* C20 holds where the session link is configured behind the credential
\* link, and where the destructor of _init.py is the one registered.
C20_LoginSurvivesLoginFirst ==
    (\/ module = "_init"
     \/ \E i, j \in 1..Len(authenticator) :
           /\ i < j
           /\ authenticator[i].kind = "Login"
           /\ authenticator[j].kind = "Session")
        => C20_LoginSurvives

\* A login that did survive: credential link first, session link behind it.
C20_Survived ==
    /\ obs.op = "constructor" /\ obs.request.fields = {}
    /\ login.actor # None /\ login.down
    /\ LoginAndSessionLinks
    /\ authenticator[1].kind = "Login"
    /\ obs.result = login.actor

(***************************************************************************)
(* Claims about both parts, checked under AppSpec.                         *)
(***************************************************************************)
\* C16: read-only after startup. A permits call (and a second one after it)
\* leaves the rule table as the call found it; after every retrieve and
\* store, and in every state after init, the chain (its links and their
\* order, that is each link's next) is the chain init built.
C16_ReadOnlyAfterStartup ==
    /\ last.called => rules = last.before
    /\ (startup.status = "ok") => authenticator = startup.built
    /\ (obs.op # "") => /\ startup.status = "ok"
                        /\ authenticator = startup.built

\* A step in which a permits call was made.
PermitsStep == last' # last /\ last'.called

\* A step in which a retrieve or a store ran through the chain.
ChainStep == obs' # obs /\ obs'.op # ""

\* The same, step by step: no permits call changes the rule table, no
\* retrieve or store changes the chain, and once init has built the chain
\* nothing does.
C16_NoStepWrites ==
    [][/\ PermitsStep => rules' = rules
       /\ ChainStep => authenticator' = authenticator
       /\ (startup.status = "ok") => authenticator' = authenticator]_vars

\* C16 witness: a permits call, made twice, on an operation the rule table
\* has no entry for, while the table holds rules of another operation and
\* still holds exactly those.
C16_Witness ==
    /\ last.called /\ last.repeated
    /\ rules # <<>>
    /\ last.operation \notin DOMAIN rules
    /\ \A o \in DOMAIN rules : rules[o] # <<>>

\* A store through a chain of two links and the null link changed the
\* session, and the chain is the one init built from the configured list.
C16_ChainIntact ==
    /\ obs.op \in {"persist", "destructor"} /\ obs.calls # <<>>
    /\ session # obs.session
    /\ Len(authenticator) = 3
    /\ authenticator = startup.conf.authenticators \o <<NullAuthenticator>>

(***************************************************************************)
(* The session link's store followed by its retrieve, checked under        *)
(* AuthSpec. obs.link is the link both were called on, obs.session the     *)
(* session before the store, obs.mid the session between the two calls and *)
(* session the one retrieve left.                                          *)
(***************************************************************************)
\* The links whose retrieve ran in the store-then-retrieve operation.
RetrievedLinks == Invoked("retrieve")

C21_ClearedThenDelegated ==
    /\ obs.op = "store_retrieve"
    /\ authenticator[obs.link].cls = "None"
    /\ obs.actor = None /\ obs.error = ""
    /\ authenticator[obs.link].session_key \in DOMAIN obs.session
    /\ authenticator[obs.link].session_key \notin DOMAIN session
    /\ obs.result # None

\* store(ctx, None) removed the link's key and then raised from a session
\* link behind it whose key the session did not hold; the retrieve after it
\* found the link's key absent.
C21_StoreRaisedBehind ==
    /\ obs.op = "store_retrieve"
    /\ authenticator[obs.link].cls = "None"
    /\ obs.actor = None /\ obs.error = "KeyError"
    /\ authenticator[obs.link].session_key \in DOMAIN obs.session
    /\ authenticator[obs.link].session_key \notin DOMAIN session

(***************************************************************************)
(* Registration order, checked under Spec.                                 *)
(***************************************************************************)
\* The signatures of the call's operation in order of first registration.
LastFirsts ==
    IF last.operation \in DOMAIN firsts THEN firsts[last.operation] ELSE <<>>

\* C22: overwriting keeps scan position. The keys of every operation's
\* table stand in the order of their first registration, whatever was
\* registered again under them, each with the predicate registered last; and
\* among the signatures that match a call, the one first registered first is
\* the one whose (current) predicate permits invokes.
C22_OverwriteKeepsPosition ==
    /\ DOMAIN rules = DOMAIN firsts
    /\ \A o \in DOMAIN rules :
          /\ Len(rules[o]) = Len(firsts[o])
          /\ \A k \in 1..Len(rules[o]) :
                /\ rules[o][k].args = firsts[o][k]
                /\ rules[o][k].test = latest[<<o, firsts[o][k]>>]
    /\ last.called =>
          \A k \in 1..Len(LastFirsts) :
              (/\ SignatureFits(last.args, LastFirsts[k])
               /\ \A j \in 1..(k - 1) :
                     ~SignatureFits(last.args, LastFirsts[j]))
                  => /\ Len(last.invoked) = 1
                     /\ last.invoked[1].pos = k
                     /\ last.invoked[1].test =
                           latest[<<last.operation, LastFirsts[k]>>]

\* C22 witness: (Base,) was registered before (Derived,) and afterwards
\* registered again with another predicate; a call with a Derived instance,
\* which both signatures match, invoked the new predicate of (Base,) at
\* position 1, and its result differs from what the predicate of (Derived,)
\* gives.
C22_Witness ==
    /\ refronted
    /\ last.called /\ last.args = <<objD>>
    /\ LastFirsts = << <<"Base">>, <<"Derived">> >>
    /\ Len(last.invoked) = 1 /\ last.invoked[1].pos = 1
    /\ last.invoked[1].test = latest[<<last.operation, <<"Base">>>>]
    /\ LastTable[1].test # LastTable[2].test
    /\ Call(LastTable[1].test, last.actor, last.args)
          # Call(LastTable[2].test, last.actor, last.args)

====
